---- MODULE Spec2Model ----
(***************************************************************************)
(* Model of the sync engine of tap-google-analytics:                       *)
(*   - the Date Batcher  (sync.py, batch_report_dates)                     *)
(*   - the Sync Orchestrator (sync.py, sync), seen through the messages it *)
(*     writes (schema / record / state) and the calls it makes to          *)
(*     Client.process_stream.                                              *)
(* Dates are day numbers (all datetimes the orchestrator handles are at    *)
(* midnight UTC); config.start_date alone may carry a time of day.         *)
(***************************************************************************)
EXTENDS Integers, Sequences, FiniteSets, TLC

VARIABLES
    \* ---- Date Batcher, called on its own
    b_in,               \* arguments of batch_report_dates: [start, end, interval]
    b_out,              \* the windows it yielded, in order
    b_pc,               \* "call" | "done"
    \* ---- Sync Orchestrator
    config,             \* the config handed to sync()
    catalog,            \* sequence of streams: [tap_stream_id, selected]
    state0,             \* the state handed to sync(), after line 70
    state,              \* the state dict sync() mutates
    errors_encountered, \* local of sync()
    si,                 \* index in catalog['streams'] of the stream of the loop
    windows,            \* windows of batch_report_dates for the current stream
    wi,                 \* index in windows of the next window to query
    pc,                 \* "loop" | "window" | "stream_end" | "done" | "off"
    exit_status,        \* -1 while running, then the status of the process
    output,             \* the messages written by singer.write_*
    queries,            \* the calls made to client.process_stream, with outcome
    c_in,               \* Client.process_stream: the window and what the API holds for it
    c_token,            \* local nextPageToken of process_stream (0 is None)
    c_tries,            \* attempts of the last query_api call so far (backoff's tries)
    c_last,             \* what the last attempt raised, NoFailure if it was answered
    c_sent,             \* pageToken of every answered query_api call, in order
    c_records,          \* local records of process_stream
    c_pc,               \* "query" | "returned" | "raised" | "off"
    c_error,            \* the exception that left process_stream, "" if none
    l_in,               \* Client.lookup_data_type: arguments and the reference tables
    l_out,              \* its result
    l_pc,               \* "call" | "done" | "off"
    h_in,               \* generate_sdc_record_hash: the arguments of two calls
    h_out,              \* the two digests
    h_pc,               \* "call" | "done" | "off"
    a_in,               \* process_args: the config file as read, and the clock
    a_out,              \* the config it hands to sync(), or the exit
    a_pc                \* "call" | "done" | "off"

vars == <<b_in, b_out, b_pc, config, catalog, state0, state, errors_encountered,
          si, windows, wi, pc, exit_status, output, queries,
          c_in, c_token, c_tries, c_last, c_sent, c_records, c_pc, c_error,
          l_in, l_out, l_pc, h_in, h_out, h_pc, a_in, a_out, a_pc>>

batch_vars == <<b_in, b_out, b_pc>>
sync_vars  == <<config, catalog, state0, state, errors_encountered,
                si, windows, wi, pc, exit_status, output, queries>>
client_vars == <<c_in, c_token, c_tries, c_last, c_sent, c_records, c_pc,
                 c_error>>
lookup_vars == <<l_in, l_out, l_pc>>
hash_vars   == <<h_in, h_out, h_pc>>
args_vars   == <<a_in, a_out, a_pc>>
unit_vars   == <<client_vars, lookup_vars, hash_vars, args_vars>>

\* a component that is not exercised by the specification at hand
NoFailure == [kind |-> "none", status |-> 0, reason |-> ""]
ClientIdle ==
    /\ c_in = [start_date |-> 0, has_date |-> TRUE, pages |-> <<>>,
               last_reports |-> 1]
    /\ c_token = 0 /\ c_tries = 0 /\ c_last = NoFailure
    /\ c_sent = <<>> /\ c_records = <<>> /\ c_pc = "off" /\ c_error = ""
LookupIdle == l_in = <<>> /\ l_out = "" /\ l_pc = "off"
HashIdle == h_in = <<>> /\ h_out = <<>> /\ h_pc = "off"
ArgsIdle == a_in = <<>> /\ a_out = <<>> /\ a_pc = "off"

(***************************************************************************)
(* Bounds of the model                                                     *)
(***************************************************************************)
BaseDay      == 20   \* day number of the earliest start date tried
MaxStartOff  == 2    \* batcher: start in BaseDay .. BaseDay + MaxStartOff
MaxRange     == 64   \* batcher: end in BaseDay - 1 .. BaseDay + MaxRange
MaxWindows   == 4    \* sync: runs of at most MaxWindows windows over all streams
MaxRecords   == 1    \* sync: at most MaxRecords rows are returned in a run
MaxFailures  == 1    \* sync: at most MaxFailures recoverable errors in a run

(***************************************************************************)
(* Program constants                                                       *)
(***************************************************************************)
DailyThreshold  == 30   \* sync.py:32
DefaultLookback == 15   \* sync.py:83

Intervals == {0, 6, 29}  \* __init__.py:92-98  DAY / WEEK / MONTH

Lookbacks == {0, 1}      \* the values of lookback_days tried, when it is configured

EndOffsets == {0, 2, 16} \* config end_date is BaseDay plus one of these

(***************************************************************************)
(* Date Batcher                                                             *)
(***************************************************************************)

\* sync.py:32-33: a range shorter than 30 days is batched daily
effective_interval(date_diff, interval) ==
    IF date_diff < DailyThreshold THEN 0 ELSE interval

\* sync.py:38-43 with the next window starting two days after the previous end
RECURSIVE batch_loop_gap(_, _, _, _)
batch_loop_gap(start_date, stop_date, span, end_date) ==
    IF start_date < stop_date
    THEN <<<<start_date, start_date + span>>>>
            \o batch_loop_gap(start_date + span + 2, stop_date, span, end_date)
    ELSE <<<<start_date, end_date>>>>

\* sync.py:38-43 with a last window of full length, not clipped to end_date
RECURSIVE batch_loop_noclip(_, _, _, _)
batch_loop_noclip(start_date, stop_date, span, end_date) ==
    IF start_date < stop_date
    THEN <<<<start_date, start_date + span>>>>
            \o batch_loop_noclip(start_date + span + 1, stop_date, span, end_date)
    ELSE <<<<start_date, start_date + span>>>>

\* sync.py:38-43: the while loop and the final yield
RECURSIVE batch_loop(_, _, _, _)
batch_loop(start_date, stop_date, span, end_date) ==
    IF start_date < stop_date
    THEN <<<<start_date, start_date + span>>>>
            \o batch_loop(start_date + span + 1, stop_date, span, end_date)
    ELSE <<<<start_date, end_date>>>>

\* sync.py:20-43 with the windows yielded from the last to the first
batch_report_dates_reversed(start_date, end_date, interval) ==
    LET date_diff == end_date - start_date
        span      == effective_interval(date_diff, interval)
        stop_date == end_date - span
        ws        == batch_loop(start_date, stop_date, span, end_date)
    IN  [i \in 1..Len(ws) |-> ws[Len(ws) + 1 - i]]

\* sync.py:20-43: the sequence of (window_start, window_end) the generator yields
batch_report_dates(start_date, end_date, interval) ==
    LET date_diff == end_date - start_date
        span      == effective_interval(date_diff, interval)
        stop_date == end_date - span
    IN  batch_loop(start_date, stop_date, span, end_date)

(***************************************************************************)
(* The Date Batcher called on its own, on every (start, end, interval)     *)
(***************************************************************************)
BatchInputs ==
    [start    : BaseDay .. BaseDay + MaxStartOff,
     end      : BaseDay - 1 .. BaseDay + MaxRange,
     interval : Intervals]

\* sync.py:95: the generator is run to exhaustion
BatchCall ==
    /\ b_pc = "call"
    /\ b_out' = batch_report_dates(b_in.start, b_in.end, b_in.interval)
    /\ b_pc' = "done"
    /\ UNCHANGED <<b_in, sync_vars, unit_vars>>

(***************************************************************************)
(* Sync Orchestrator: data                                                 *)
(***************************************************************************)
StreamIds == <<"A", "B">>

Null == "null"      \* a key that is absent from the state dict

\* error.py:4-14 caught at sync.py:106-117: the stream is logged as skipped
Recoverable == {"GaInvalidArgumentError", "GaRateLimitError", "GaQuotaExceededError"}
\* error.py:7-8, 19-20 caught at sync.py:118-125: sys.exit(1)
Fatal       == {"GaAuthenticationError", "GaUnknownError"}
\* error.py:16-17 (client.py:220) and any other exception (socket.timeout of
\* client.py:239 once the retries are spent, or the TypeError of calling the
\* four-parameter process_stream of client.py:188 with the three arguments of
\* sync.py:99): no except clause of sync() names them
Uncaught    == {"GaBackendServerError", "OtherException"}

\* singer.write_schema (sync.py:93)
SchemaMsg(stream_id) == [type |-> "SCHEMA", stream |-> stream_id]
\* singer.write_records (sync.py:102): one RECORD message per row; each row
\* carries the window it was queried for (client.py:329-330)
RecordMsg(stream_id, w) ==
    [type |-> "RECORD", stream |-> stream_id,
     report_start_date |-> w[1], report_end_date |-> w[2]]
\* singer.write_state (sync.py:105, 131): the whole state dict as it is then
StateMsg(st) == [type |-> "STATE", value |-> st]

\* singer.get_bookmark(state, stream_id, 'last_report_date', default) (sync.py:82)
get_bookmark(st, stream_id, default) ==
    IF stream_id \in DOMAIN st.bookmarks THEN st.bookmarks[stream_id] ELSE default

\* singer.write_bookmark writing the value as the bookmark of every stream
write_bookmark_all(st, stream_id, val) ==
    [st EXCEPT !.bookmarks =
        [x \in DOMAIN st.bookmarks \cup {stream_id} |-> val]]

\* singer.write_bookmark(state, stream_id, 'last_report_date', val) (sync.py:104)
write_bookmark(st, stream_id, val) ==
    [st EXCEPT !.bookmarks =
        [x \in DOMAIN st.bookmarks \cup {stream_id} |->
            IF x = stream_id THEN val ELSE st.bookmarks[x]]]

\* singer.set_currently_syncing(state, stream_id) (sync.py:91, 130)
set_currently_syncing(st, stream_id) == [st EXCEPT !.currently_syncing = stream_id]

\* datetime.strftime('%Y-%m-%d') (sync.py:82, 104): the time of day is dropped
strftime(dt) == dt.day

\* config.get('lookback_days', 15) (sync.py:83)
lookback_days(cfg) ==
    IF "lookback_days" \in DOMAIN cfg THEN cfg.lookback_days ELSE DefaultLookback

\* sync.py:46-60
get_selected_streams(cat) ==
    {cat[i].tap_stream_id : i \in {j \in 1..Len(cat) : cat[j].selected}}

\* sync.py:82-83 without the lookback subtraction
stream_start_date_nolookback(st, cfg, stream_id) ==
    get_bookmark(st, stream_id, strftime(cfg.start_date))

\* sync.py:82-83: the bookmark (default: config start_date's day) minus lookback
stream_start_date(st, cfg, stream_id) ==
    get_bookmark(st, stream_id, strftime(cfg.start_date)) - lookback_days(cfg)

\* the records written so far
NumRecords == Cardinality({i \in 1..Len(output) : output[i].type = "RECORD"})
\* the calls that raised a recoverable error so far
NumFailures ==
    Cardinality({i \in 1..Len(queries) : queries[i].outcome \in Recoverable})

\* an entry of the call log of client.process_stream (sync.py:99)
Query(stream_id, w, outcome) ==
    [stream |-> stream_id, window |-> w, outcome |-> outcome, at |-> Len(output)]

(***************************************************************************)
(* Sync Orchestrator: the steps of sync()                                  *)
(***************************************************************************)
CurStream == catalog[si].tap_stream_id
CurWindow == windows[wi]

\* sync.py:95: the for loop asks the generator for the next window
\* sync.py:98: a for loop that steps over every other window
next_window_skip ==
    /\ wi' = wi + 2
    /\ pc' = IF wi + 1 < Len(windows) THEN "window" ELSE "stream_end"

\* sync.py:98: the for loop takes the next window, or ends
next_window ==
    /\ wi' = wi + 1
    /\ pc' = IF wi < Len(windows) THEN "window" ELSE "stream_end"

\* sync.py:81-93 without the schema message of line 93
BeginStream_noschema ==
    /\ pc = "loop"
    /\ si <= Len(catalog)
    /\ CurStream \in get_selected_streams(catalog)
    /\ windows' = batch_report_dates(stream_start_date(state, config, CurStream),
                                     config.end_date, config.date_batching)
    /\ state' = set_currently_syncing(state, CurStream)
    /\ wi' = 1
    /\ pc' = "window"
    /\ UNCHANGED <<config, catalog, state0, errors_encountered, si, exit_status,
                   output, queries, batch_vars, unit_vars>>

\* sync.py:73-93: a selected stream: start and end date, currently_syncing,
\* the schema message, and the generator of its windows
BeginStream ==
    /\ pc = "loop"
    /\ si <= Len(catalog)
    /\ CurStream \in get_selected_streams(catalog)
    /\ windows' = batch_report_dates(stream_start_date(state, config, CurStream),
                                     config.end_date, config.date_batching)
    /\ state' = set_currently_syncing(state, CurStream)
    /\ output' = Append(output, SchemaMsg(CurStream))
    /\ wi' = 1
    /\ pc' = "window"
    /\ UNCHANGED <<config, catalog, state0, errors_encountered, si, exit_status,
                   queries, batch_vars, unit_vars>>

\* sync.py:132-133: a stream that is not selected
SkipStream ==
    /\ pc = "loop"
    /\ si <= Len(catalog)
    /\ CurStream \notin get_selected_streams(catalog)
    /\ si' = si + 1
    /\ UNCHANGED <<config, catalog, state0, state, errors_encountered, windows, wi,
                   pc, exit_status, output, queries, batch_vars, unit_vars>>

\* sync.py:99-105 with the state written only at the end of the stream
WindowOk_nostate(n) ==
    /\ pc = "window"
    /\ NumRecords + n <= MaxRecords
    /\ queries' = Append(queries, Query(CurStream, CurWindow, "ok"))
    /\ state' = write_bookmark(state, CurStream, CurWindow[2])
    /\ output' = output \o [k \in 1..n |-> RecordMsg(CurStream, CurWindow)]
    /\ next_window
    /\ UNCHANGED <<config, catalog, state0, errors_encountered, si, windows,
                   exit_status, batch_vars, unit_vars>>

\* sync.py:99-105, 126-128: process_stream returns n rows: they are written as
\* records, the bookmark is set to the window's end date and the state is written
WindowOk(n) ==
    /\ pc = "window"
    /\ NumRecords + n <= MaxRecords
    /\ queries' = Append(queries, Query(CurStream, CurWindow, "ok"))
    /\ state' = write_bookmark(state, CurStream, CurWindow[2])
    /\ output' = (output \o [k \in 1..n |-> RecordMsg(CurStream, CurWindow)])
                    \o <<StateMsg(state')>>
    /\ next_window
    /\ UNCHANGED <<config, catalog, state0, errors_encountered, si, windows,
                   exit_status, batch_vars, unit_vars>>

\* sync.py:106-117 with a recoverable error ending the process like a fatal one
WindowRecoverable_abort(err) ==
    /\ pc = "window"
    /\ NumFailures < MaxFailures
    /\ queries' = Append(queries, Query(CurStream, CurWindow, err))
    /\ pc' = "done"
    /\ exit_status' = 1
    /\ UNCHANGED <<config, catalog, state0, state, errors_encountered, si, windows,
                   wi, output, batch_vars, unit_vars>>

\* sync.py:106-117 with the window's record, bookmark and state written all the same
WindowRecoverable_partial(err) ==
    /\ pc = "window"
    /\ NumFailures < MaxFailures
    /\ queries' = Append(queries, Query(CurStream, CurWindow, err))
    /\ errors_encountered' = TRUE
    /\ state' = write_bookmark(state, CurStream, CurWindow[2])
    /\ output' = output \o <<RecordMsg(CurStream, CurWindow), StateMsg(state')>>
    /\ next_window
    /\ UNCHANGED <<config, catalog, state0, si, windows, exit_status,
                   batch_vars, unit_vars>>

\* sync.py:106-117, 126-128: process_stream raises a recoverable error: the flag
\* is set, the error is logged, and the for loop goes on with the next window
WindowRecoverable(err) ==
    /\ pc = "window"
    /\ NumFailures < MaxFailures
    /\ queries' = Append(queries, Query(CurStream, CurWindow, err))
    /\ errors_encountered' = TRUE
    /\ next_window
    /\ UNCHANGED <<config, catalog, state0, state, si, windows, exit_status,
                   output, batch_vars, unit_vars>>

\* sync.py:118-125 with the error handled like a recoverable one
WindowFatal_continue(err) ==
    /\ pc = "window"
    /\ queries' = Append(queries, Query(CurStream, CurWindow, err))
    /\ errors_encountered' = TRUE
    /\ next_window
    /\ UNCHANGED <<config, catalog, state0, state, si, windows, exit_status,
                   output, batch_vars, unit_vars>>

\* sync.py:118-125: process_stream raises an authentication or unknown error:
\* sys.exit(1)
WindowFatal(err) ==
    /\ pc = "window"
    /\ queries' = Append(queries, Query(CurStream, CurWindow, err))
    /\ pc' = "done"
    /\ exit_status' = 1
    /\ UNCHANGED <<config, catalog, state0, state, errors_encountered, si, windows,
                   wi, output, batch_vars, unit_vars>>

\* sync.py:99 and __init__.py:133-149: process_stream raises an exception that no
\* except clause of sync() catches: it leaves sync() and main(), and the
\* interpreter ends with status 1
WindowUncaught(err) ==
    /\ pc = "window"
    /\ queries' = Append(queries, Query(CurStream, CurWindow, err))
    /\ pc' = "done"
    /\ exit_status' = 1
    /\ UNCHANGED <<config, catalog, state0, state, errors_encountered, si, windows,
                   wi, output, batch_vars, unit_vars>>

\* sync.py:130-131: the windows of the stream are exhausted
EndStream ==
    /\ pc = "stream_end"
    /\ state' = set_currently_syncing(state, "")
    /\ output' = Append(output, StateMsg(state'))
    /\ si' = si + 1
    /\ pc' = "loop"
    /\ UNCHANGED <<config, catalog, state0, errors_encountered, windows, wi,
                   exit_status, queries, batch_vars, unit_vars>>

\* sync.py:135-139 with the return status not reflecting the errors
Finish_zero ==
    /\ pc = "loop"
    /\ si > Len(catalog)
    /\ exit_status' = 0
    /\ pc' = "done"
    /\ UNCHANGED <<config, catalog, state0, state, errors_encountered, si, windows,
                   wi, output, queries, batch_vars, unit_vars>>

\* sync.py:135-139: every stream of the catalog was looped over
Finish ==
    /\ pc = "loop"
    /\ si > Len(catalog)
    /\ exit_status' = IF errors_encountered THEN 1 ELSE 0
    /\ pc' = "done"
    /\ UNCHANGED <<config, catalog, state0, state, errors_encountered, si, windows,
                   wi, output, queries, batch_vars, unit_vars>>

(***************************************************************************)
(* Initial states and specifications                                       *)
(***************************************************************************)
\* the configs process_args() can hand to sync(): __init__.py:63-98
Configs ==
    LET starts == [day : {BaseDay}, hour : {0, 12}]
        ends   == {BaseDay + d : d \in EndOffsets}
        base   == [start_date : starts, end_date : ends, date_batching : Intervals]
        valid(c) == \* __init__.py:88: end_date < start_date exits
            c.end_date > c.start_date.day
                \/ (c.end_date = c.start_date.day /\ c.start_date.hour = 0)
        withlb == {[start_date |-> c.start_date, end_date |-> c.end_date,
                    date_batching |-> c.date_batching, lookback_days |-> l] :
                        c \in base, l \in Lookbacks}
    IN  {c \in base : valid(c)} \cup {c \in withlb : valid(c)}

\* the bookmarks a previous run can have left: none, or the day after BaseDay
\* (later than config end_date when that is BaseDay)
Bookmarks ==
    LET ids == {StreamIds[i] : i \in 1..Len(StreamIds)}
    IN  {[s \in D |-> BaseDay + 1] : D \in SUBSET ids}

\* the catalogs: the two streams, each selected or not
Catalogs ==
    {[i \in 1..Len(StreamIds) |-> [tap_stream_id |-> StreamIds[i], selected |-> sel[i]]] :
        sel \in [1..Len(StreamIds) -> BOOLEAN]}

\* the number of windows sync() will ask for, for a stream
NumWindows(cfg, st, stream_id) ==
    Len(batch_report_dates(stream_start_date(st, cfg, stream_id),
                           cfg.end_date, cfg.date_batching))

\* the number of windows of a run, over the selected streams from index i on
RECURSIVE TotalWindows(_, _, _, _)
TotalWindows(cfg, st, cat, i) ==
    IF i > Len(cat) THEN 0
    ELSE (IF cat[i].selected THEN NumWindows(cfg, st, cat[i].tap_stream_id) ELSE 0)
            + TotalWindows(cfg, st, cat, i + 1)

\* sync.py:62-70: sync() is entered
InitSync ==
    /\ config \in Configs
    /\ catalog \in Catalogs
    /\ state0 \in {[bookmarks |-> b, currently_syncing |-> Null] : b \in Bookmarks}
    /\ TotalWindows(config, state0, catalog, 1) <= MaxWindows
    /\ state = state0
    /\ errors_encountered = FALSE
    /\ si = 1
    /\ windows = <<>>
    /\ wi = 1
    /\ pc = "loop"
    /\ exit_status = -1
    /\ output = <<>>
    /\ queries = <<>>

BatchIdle == b_in = [start |-> 0, end |-> 0, interval |-> 0] /\ b_out = <<>> /\ b_pc = "off"

Init == InitSync /\ BatchIdle /\ ClientIdle /\ LookupIdle /\ HashIdle /\ ArgsIdle

Next ==
    \/ BeginStream
    \/ SkipStream
    \/ \E n \in 0..MaxRecords : WindowOk(n)
    \/ \E err \in Recoverable : WindowRecoverable(err)
    \/ \E err \in Fatal : WindowFatal(err)
    \/ \E err \in Uncaught : WindowUncaught(err)
    \/ EndStream
    \/ Finish

Spec == Init /\ [][Next]_vars

\* the Date Batcher alone
InitBatch ==
    /\ b_in \in BatchInputs
    /\ b_out = <<>>
    /\ b_pc = "call"
    /\ config = [start_date |-> [day |-> BaseDay, hour |-> 0], end_date |-> BaseDay,
                 date_batching |-> 0]
    /\ catalog = <<>>
    /\ state0 = [bookmarks |-> <<>>, currently_syncing |-> Null]
    /\ state = state0
    /\ errors_encountered = FALSE
    /\ si = 1
    /\ windows = <<>>
    /\ wi = 1
    /\ pc = "off"
    /\ exit_status = -1
    /\ output = <<>>
    /\ queries = <<>>
    /\ ClientIdle /\ LookupIdle /\ HashIdle /\ ArgsIdle

NextBatch == BatchCall

SpecBatch == InitBatch /\ [][NextBatch]_vars

(***************************************************************************)
(* Vocabulary of the properties                                            *)
(***************************************************************************)
SetMax(S) == CHOOSE x \in S : \A y \in S : y <= x
SetMin(S) == CHOOSE x \in S : \A y \in S : x <= y

Ids == {StreamIds[i] : i \in 1..Len(StreamIds)}

\* the stream's bookmark in st is d
BookmarkIs(st, s, d) == s \in DOMAIN st.bookmarks /\ st.bookmarks[s] = d
\* the stream has the same bookmark, or none, in both states
SameBookmark(st1, st2, s) ==
    /\ (s \in DOMAIN st1.bookmarks) <=> (s \in DOMAIN st2.bookmarks)
    /\ s \in DOMAIN st1.bookmarks => st1.bookmarks[s] = st2.bookmarks[s]

StateIdx == {k \in 1..Len(output) : output[k].type = "STATE"}
\* the state the target has persisted: the last state message written, or the
\* state the run started from
Persisted == IF StateIdx = {} THEN state0 ELSE output[SetMax(StateIdx)].value

QueriesOf(s) == {i \in 1..Len(queries) : queries[i].stream = s}
OkQueriesOf(s) == {i \in QueriesOf(s) : queries[i].outcome = "ok"}
Aborted == \E i \in 1..Len(queries) : queries[i].outcome \in Fatal \cup Uncaught

\* position of the stream in the catalog
IndexOf(s) == CHOOSE j \in 1..Len(catalog) : catalog[j].tap_stream_id = s
\* the loop has entered, resp. left, the stream's branch
Started(s)  == IndexOf(s) < si \/ (IndexOf(s) = si /\ pc # "loop")
Finished(s) == IndexOf(s) < si \/ (IndexOf(s) = si /\ pc = "stream_end")

\* the range of the stream as the spec gives it: [bookmark - lookback, end_date]
RangeStart(s) ==
    (IF s \in DOMAIN state0.bookmarks THEN state0.bookmarks[s]
                                      ELSE config.start_date.day)
    - (IF "lookback_days" \in DOMAIN config THEN config.lookback_days
                                            ELSE DefaultLookback)
ExpectedWindows(s) ==
    batch_report_dates(RangeStart(s), config.end_date, config.date_batching)

(***************************************************************************)
(* Date Batcher                                                            *)
(***************************************************************************)

\* C1: for start <= end and interval in {0, 6, 29}, the windows yielded are in
\* ascending order, each has window_start <= window_end, the first starts at
\* start, the last ends at end, and each next window starts one day after the
\* previous window's end: the windows partition [start, end].
C1_WindowsPartitionRange ==
    (b_pc = "done" /\ b_in.start <= b_in.end) =>
        /\ Len(b_out) >= 1
        /\ b_out[1][1] = b_in.start
        /\ b_out[Len(b_out)][2] = b_in.end
        /\ \A i \in 1..Len(b_out) : b_out[i][1] <= b_out[i][2]
        /\ \A i \in 1..Len(b_out) - 1 : b_out[i + 1][1] = b_out[i][2] + 1

\* a weekly batching of a range of 30 days or more whose last window is clipped
C1_Witness ==
    /\ b_pc = "done"
    /\ b_in.interval = 6
    /\ b_in.end - b_in.start >= DailyThreshold
    /\ Len(b_out) >= 5
    /\ b_out[1][2] - b_out[1][1] = 6
    /\ b_out[Len(b_out)][2] - b_out[Len(b_out)][1] < 6

\* C2: when (end - start) is less than 30 days, every window yielded is a
\* single day (window_start = window_end), whatever the interval requested
\* (0, 6 or 29).
C2_DailyUnderThirtyDays ==
    (b_pc = "done" /\ b_in.end - b_in.start < DailyThreshold) =>
        \A i \in 1..Len(b_out) : b_out[i][1] = b_out[i][2]

(***************************************************************************)
(* Sync Orchestrator                                                       *)
(***************************************************************************)

\* C3: once a window of a stream has raised InvalidArgument, RateLimit or
\* QuotaExceeded, the stream's persisted bookmark is never advanced to or past
\* that window: when the run ends it is the end date of the last window that
\* succeeded before the failure, or the stream's bookmark at the start of the
\* run when none did.
C3_BookmarkStopsAtFailedWindow ==
    pc = "done" =>
        \A i \in 1..Len(queries) :
            queries[i].outcome \in Recoverable =>
                LET s      == queries[i].stream
                    before == {j \in OkQueriesOf(s) : j < i}
                IN  IF before = {}
                    THEN SameBookmark(Persisted, state0, s)
                    ELSE BookmarkIs(Persisted, s, queries[SetMax(before)].window[2])

\* C4: after a window of a stream has raised InvalidArgument, RateLimit or
\* QuotaExceeded, the next query issued, if any, is for another stream: the
\* next selected stream in catalog order.
C4_NoQueryOfStreamAfterFailure ==
    \A i \in 1..Len(queries) - 1 :
        queries[i].outcome \in Recoverable =>
            /\ queries[i + 1].stream # queries[i].stream
            /\ IndexOf(queries[i + 1].stream) > IndexOf(queries[i].stream)
            /\ \A j \in IndexOf(queries[i].stream) + 1 .. IndexOf(queries[i + 1].stream) - 1 :
                    ~catalog[j].selected

\* C5: a window that raises Authentication or Unknown ends the process at once
\* with status 1: it is the last query of the run, and no schema, record or
\* state message is written after it.
C5_FatalErrorStopsProcess ==
    \A i \in 1..Len(queries) :
        queries[i].outcome \in Fatal =>
            /\ i = Len(queries)
            /\ Len(output) = queries[i].at
            /\ pc = "done"
            /\ exit_status = 1

\* the second window of the first stream raised a fatal error while a selected
\* stream was still to come
C5_Witness ==
    /\ Len(queries) = 2
    /\ queries[1].outcome = "ok"
    /\ queries[2].outcome \in Fatal
    /\ si = 1
    /\ catalog[2].selected
    /\ pc = "done"

\* C6: a recoverable error does not end the run: the process exits only after
\* the loop has gone over every stream of the catalog, unless a fatal error or
\* an uncaught exception ends it; then every selected stream has had all its
\* windows queried, in order, each stream whose windows all succeeded has its
\* persisted bookmark at its last window's end date (config.end_date), and the
\* exit status is 1 if a recoverable error was raised.
C6_RecoverableErrorDoesNotStopOthers ==
    (pc = "done" /\ ~Aborted) =>
        /\ si > Len(catalog)
        /\ \A s \in get_selected_streams(catalog) :
            /\ Cardinality(QueriesOf(s)) = Len(ExpectedWindows(s))
            /\ \A k \in 1..Len(ExpectedWindows(s)) :
                    \E i \in QueriesOf(s) :
                        /\ queries[i].window = ExpectedWindows(s)[k]
                        /\ Cardinality({j \in QueriesOf(s) : j <= i}) = k
            /\ OkQueriesOf(s) = QueriesOf(s) =>
                    BookmarkIs(Persisted, s, config.end_date)
        /\ (\E i \in 1..Len(queries) : queries[i].outcome \in Recoverable) =>
                exit_status = 1

\* the only window of stream A raised a recoverable error, stream B then
\* completed its windows, and the run ended with status 1
C6_Witness ==
    /\ pc = "done"
    /\ ~Aborted
    /\ Len(queries) >= 3
    /\ queries[1].stream = "A"
    /\ queries[1].outcome \in Recoverable
    /\ QueriesOf("A") = {1}
    /\ OkQueriesOf("B") = QueriesOf("B")
    /\ BookmarkIs(Persisted, "B", config.end_date)
    /\ exit_status = 1

\* C7: the run ends with status 0 if and only if every window of every
\* selected stream succeeded; a run in which a window raised an Authentication,
\* Unknown or recoverable error ends with status 1.
C7_ExitStatusZeroIffAllSucceeded ==
    pc = "done" =>
        /\ exit_status \in {0, 1}
        /\ exit_status = 0 <=>
                \A s \in get_selected_streams(catalog) :
                    \A k \in 1..Len(ExpectedWindows(s)) :
                        \E i \in OkQueriesOf(s) :
                            queries[i].window = ExpectedWindows(s)[k]
        /\ (\E i \in 1..Len(queries) : queries[i].outcome # "ok") => exit_status = 1

\* a run that was not aborted, whose last window succeeded after an earlier
\* one had raised a recoverable error, ends with status 1
C7_Witness ==
    /\ pc = "done"
    /\ ~Aborted
    /\ Len(queries) >= 2
    /\ queries[1].outcome \in Recoverable
    /\ queries[Len(queries)].outcome = "ok"
    /\ exit_status = 1

\* C8: after every window that succeeded, and before the next query, a state
\* message is written whose bookmark for the stream is that window's end date;
\* so at every point of the run the persisted bookmark of a stream is the end
\* date of its last window that succeeded (its bookmark at the start of the
\* run when none has yet).
C8_CheckpointAfterEveryWindow ==
    /\ \A i \in 1..Len(queries) :
            queries[i].outcome = "ok" =>
                LET upto == IF i < Len(queries) THEN queries[i + 1].at ELSE Len(output)
                IN  \E k \in queries[i].at + 1 .. upto :
                        /\ output[k].type = "STATE"
                        /\ BookmarkIs(output[k].value, queries[i].stream,
                                      queries[i].window[2])
    /\ \A s \in Ids :
            IF OkQueriesOf(s) = {}
            THEN SameBookmark(Persisted, state0, s)
            ELSE BookmarkIs(Persisted, s, queries[SetMax(OkQueriesOf(s))].window[2])

\* the stream is between its second and its third window, both windows queried
\* so far succeeded, and the persisted bookmark is the second window's end date
C8_Witness ==
    /\ pc = "window"
    /\ wi = 3
    /\ Len(queries) = 2
    /\ queries[1].outcome = "ok"
    /\ queries[2].outcome = "ok"
    /\ BookmarkIs(Persisted, CurStream, windows[2][2])
    /\ Cardinality(StateIdx) = 2

\* C9: the schema message of a selected stream is written exactly once, before
\* every record of the stream; the records of a window are followed by the
\* state message carrying that window's end date as the stream's bookmark; and
\* no schema, no record and no bookmark is written for a stream that is not
\* selected.
C9_OutputOrder ==
    /\ \A s \in Ids :
            LET n == Cardinality({k \in 1..Len(output) : output[k] = SchemaMsg(s)})
            IN  IF s \in get_selected_streams(catalog) /\ Started(s)
                THEN n = 1 ELSE n = 0
    /\ (pc = "done" /\ ~Aborted) =>
            \A s \in get_selected_streams(catalog) : Started(s)
    /\ \A k \in 1..Len(output) :
            output[k].type = "RECORD" =>
                /\ \E j \in 1..k - 1 : output[j] = SchemaMsg(output[k].stream)
                /\ \E m \in StateIdx :
                        /\ m > k
                        /\ \A j \in k + 1 .. m - 1 :
                                output[j] = output[k]
                        /\ BookmarkIs(output[m].value, output[k].stream,
                                      output[k].report_end_date)
    /\ \A k \in 1..Len(output) :
            output[k].type \in {"SCHEMA", "RECORD"} =>
                output[k].stream \in get_selected_streams(catalog)
    /\ \A s \in Ids \ get_selected_streams(catalog) :
            \A k \in StateIdx : SameBookmark(output[k].value, state0, s)

\* stream A, not selected, has a bookmark; stream B, selected, has written its
\* schema, a record and state messages; the run ended with status 0
C9_Witness ==
    /\ pc = "done"
    /\ exit_status = 0
    /\ ~catalog[1].selected
    /\ catalog[2].selected
    /\ "A" \in DOMAIN state0.bookmarks
    /\ \E k \in 1..Len(output) : output[k].type = "RECORD" /\ output[k].stream = "B"
    /\ Len(queries) >= 2

\* C10: the range batched for a selected stream is [bookmark - lookback_days,
\* config.end_date], with the bookmark of the state the run started from, or
\* config.start_date when the stream has none, and lookback_days 15 when not
\* configured: the first window queried starts at bookmark - lookback_days and
\* the last window of the stream ends at config.end_date.
C10_RangeFromBookmarkAndLookback ==
    /\ pc \in {"window", "stream_end"} => windows = ExpectedWindows(CurStream)
    /\ \A s \in Ids :
            QueriesOf(s) # {} =>
                /\ queries[SetMin(QueriesOf(s))].window[1] = RangeStart(s)
                /\ Finished(s) =>
                        queries[SetMax(QueriesOf(s))].window[2] = config.end_date

\* a stream with a bookmark and no lookback_days configured was synced from 15
\* days before its bookmark to config.end_date, in more than one window
C10_Witness ==
    /\ pc = "done"
    /\ ~Aborted
    /\ "lookback_days" \notin DOMAIN config
    /\ catalog[1].selected
    /\ "A" \in DOMAIN state0.bookmarks
    /\ Cardinality(QueriesOf("A")) >= 2
    /\ queries[1].window[1] = state0.bookmarks["A"] - DefaultLookback
    /\ queries[SetMax(QueriesOf("A"))].window[2] = config.end_date

(***************************************************************************)
(* Daily sync of a stream without bookmark                                 *)
(***************************************************************************)

\* the stream has no bookmark, lookback_days is 0, batching is daily and the
\* range is not empty
DailyFromStart(s) ==
    /\ s \in get_selected_streams(catalog)
    /\ s \notin DOMAIN state0.bookmarks
    /\ "lookback_days" \in DOMAIN config /\ config.lookback_days = 0
    /\ config.date_batching = 0
    /\ config.start_date.day <= config.end_date
\* the state messages written while the stream was the one being synced
BookmarkWrites(s) == {k \in StateIdx : output[k].value.currently_syncing = s}

\* C11: for a selected stream without bookmark, with lookback_days 0 and daily
\* batching over [s, e], once all its queries have succeeded the run has queried
\* exactly e - s + 1 single-day windows, the days s, s+1, ..., e in that order,
\* has written the bookmark once per window, and the bookmark is e.
C11_DailyWindowsOnePerDay ==
    \A s \in Ids :
        (DailyFromStart(s) /\ Finished(s) /\ QueriesOf(s) = OkQueriesOf(s)) =>
            LET first == config.start_date.day
                n == config.end_date - first + 1
            IN  /\ Cardinality(QueriesOf(s)) = n
                /\ \A k \in 0..(n - 1) :
                        LET q == queries[SetMin(QueriesOf(s)) + k]
                        IN  q.stream = s /\ q.window = <<first + k, first + k>>
                /\ Cardinality(BookmarkWrites(s)) = n
                /\ \A k \in 0..(n - 1) :
                        \E m \in BookmarkWrites(s) :
                            /\ BookmarkIs(output[m].value, s, first + k)
                            /\ \A m2 \in BookmarkWrites(s) :
                                    BookmarkIs(output[m2].value, s, first + k) => m2 = m
                /\ BookmarkIs(state, s, config.end_date)
                /\ BookmarkIs(Persisted, s, config.end_date)

\* stream A over three days, BaseDay to BaseDay + 2: three queries, three
\* bookmark writes, bookmark BaseDay + 2, and the run has ended
C11_Witness ==
    /\ pc = "done"
    /\ DailyFromStart("A")
    /\ config.start_date.day = BaseDay /\ config.end_date = BaseDay + 2
    /\ Cardinality(OkQueriesOf("A")) = 3
    /\ Cardinality(BookmarkWrites("A")) = 3
    /\ BookmarkIs(Persisted, "A", BaseDay + 2)

(***************************************************************************)
(* Record Hasher: helpers.generate_sdc_record_hash                         *)
(***************************************************************************)

MaxDims == 2

ViewIds == {"1001", "1002"}
DateStrings == {"2024-01-01", "2024-01-02"}
DimValues == <<"x", "y">>
DimLists == UNION {[1..n -> {DimValues[i] : i \in 1..Len(DimValues)}] : n \in 0..MaxDims}

\* json.dumps of a list of strings: quoted items joined by ", " in brackets
RECURSIVE json_items(_)
json_items(l) ==
    IF l = <<>> THEN ""
    ELSE IF Len(l) = 1 THEN "\"" \o l[1] \o "\""
    ELSE "\"" \o l[1] \o "\", " \o json_items(Tail(l))
json_dumps(l) == "[" \o json_items(l) \o "]"

\* hashlib.sha256(bytes).hexdigest(), taken as injective: the digest names the
\* bytes it was computed from
sha256_hexdigest(bytes) == "sha256:" \o bytes

\* the dimension values in the order of DimValues, as sorted() would give them
RECURSIVE sorted_from(_, _)
sorted_from(dims, i) ==
    IF i > Len(DimValues) THEN <<>>
    ELSE [k \in 1..Cardinality({j \in DOMAIN dims : dims[j] = DimValues[i]})
                |-> DimValues[i]]
            \o sorted_from(dims, i + 1)

\* helpers.py:25-26 with the dimension values sorted first
hash_source_data_sorted(view_id, report_date, dimensions) ==
    <<view_id, report_date>> \o sorted_from(dimensions, 1)

\* helpers.py:25-26
hash_source_data(view_id, report_date, dimensions) ==
    <<view_id, report_date>> \o dimensions

\* helpers.py:8-29
generate_sdc_record_hash(view_id, report_date, dimensions) ==
    sha256_hexdigest(json_dumps(hash_source_data(view_id, report_date, dimensions)))

HashInputs == [view_id : ViewIds, report_date : DateStrings, dimensions : DimLists]

\* two calls of the hasher
HashCall ==
    /\ h_pc = "call"
    /\ h_out' = <<generate_sdc_record_hash(h_in[1].view_id, h_in[1].report_date,
                                           h_in[1].dimensions),
                  generate_sdc_record_hash(h_in[2].view_id, h_in[2].report_date,
                                           h_in[2].dimensions)>>
    /\ h_pc' = "done"
    /\ UNCHANGED <<h_in, sync_vars, batch_vars, client_vars, lookup_vars, args_vars>>

\* the orchestrator and the batcher at rest
SyncOff ==
    /\ config = [start_date |-> [day |-> BaseDay, hour |-> 0], end_date |-> BaseDay,
                 date_batching |-> 0]
    /\ catalog = <<>>
    /\ state0 = [bookmarks |-> <<>>, currently_syncing |-> Null]
    /\ state = state0
    /\ errors_encountered = FALSE
    /\ si = 1
    /\ windows = <<>>
    /\ wi = 1
    /\ pc = "off"
    /\ exit_status = -1
    /\ output = <<>>
    /\ queries = <<>>

InitHash ==
    /\ h_in \in HashInputs \X HashInputs
    /\ h_out = <<>>
    /\ h_pc = "call"
    /\ SyncOff /\ BatchIdle /\ ClientIdle /\ LookupIdle /\ ArgsIdle

NextHash == HashCall

SpecHash == InitHash /\ [][NextHash]_vars

\* the ordered list the claim speaks of
HashedList(in) == <<in.view_id, in.report_date>> \o in.dimensions

\* C19: the record hash is a function of the ordered list [view_id, date marker,
\* dimension values in order]: two calls get the same hash exactly when their
\* lists are equal, element by element and in the same order (the digest being
\* taken as injective).
C19_HashEqualIffSameList ==
    h_pc = "done" =>
        ((h_out[1] = h_out[2]) <=> (HashedList(h_in[1]) = HashedList(h_in[2])))

\* the same view, date and dimension values in two different orders have got two
\* different hashes
C19_Witness ==
    /\ h_pc = "done"
    /\ h_in[1].view_id = h_in[2].view_id
    /\ h_in[1].report_date = h_in[2].report_date
    /\ h_in[1].dimensions = <<"x", "y">>
    /\ h_in[2].dimensions = <<"y", "x">>
    /\ h_out[1] # h_out[2]
    /\ h_out[1] = "sha256:[\"" \o h_in[1].view_id \o "\", \""
                    \o h_in[1].report_date \o "\", \"x\", \"y\"]"

(***************************************************************************)
(* Type lookup: Client.lookup_data_type                                    *)
(***************************************************************************)

\* attribute names, with what str.startswith and str.endswith say of them
Attributes == {"ga:country", "ga:dimension1", "ga:segment", "ga:sessions",
               "ga:goal1Starts", "ga:goalValueAll", "ga:searchGoal1ConversionRate",
               "ga:metric1"}
Prefixes == {<<"ga:dimension1", "ga:dimension">>, <<"ga:segment", "ga:segment">>,
             <<"ga:goal1Starts", "ga:goal">>, <<"ga:goalValueAll", "ga:goal">>,
             <<"ga:searchGoal1ConversionRate", "ga:searchGoal">>,
             <<"ga:metric1", "ga:metric">>}
Suffixes == {<<"ga:goal1Starts", "Starts">>,
             <<"ga:searchGoal1ConversionRate", "ConversionRate">>}
startswith(attribute, prefixes) == \E p \in prefixes : <<attribute, p>> \in Prefixes
endswith(attribute, suffixes) == \E x \in suffixes : <<attribute, x>> \in Suffixes

\* dataType values of the metadata columns (client.py:140)
RefTypes == {"INTEGER", "FLOAT", "PERCENT", "TIME", "CURRENCY", "STRING"}
GaTypes == {"dimension", "metric", "segment"}
Exit1 == "sys.exit(1)"

\* client.py:157
custom_dimension(attribute) ==
    startswith(attribute, {"ga:dimension", "ga:customVarName", "ga:customVarValue",
                           "ga:segment"})
\* client.py:164-169
custom_metric(attribute) ==
    \/ /\ startswith(attribute, {"ga:goal"})
       /\ endswith(attribute, {"Starts", "Completions", "Value", "ConversionRate",
                               "Abandons", "AbandonRate"})
    \/ startswith(attribute, {"ga:searchGoal"}) /\ endswith(attribute, {"ConversionRate"})
    \/ startswith(attribute, {"ga:metric", "ga:calcMetric"})

\* client.py:179-186 without TIME among the numbers
data_type_of_notime(attr_type) ==
    IF attr_type = "INTEGER" THEN "integer"
    ELSE IF attr_type \in {"FLOAT", "PERCENT", "CURRENCY"} THEN "number"
    ELSE "string"

\* client.py:179-186
data_type_of(attr_type) ==
    IF attr_type = "INTEGER" THEN "integer"
    ELSE IF attr_type \in {"FLOAT", "PERCENT", "TIME", "CURRENCY"} THEN "number"
    ELSE "string"

\* client.py:149-186 with an attribute the table lacks taken as a string
lookup_data_type_default(dimensions_ref, metrics_ref, type, attribute) ==
    IF type = "dimension" THEN
        IF custom_dimension(attribute) THEN "string"
        ELSE IF attribute \notin DOMAIN dimensions_ref THEN "string"
        ELSE data_type_of(dimensions_ref[attribute])
    ELSE IF type = "metric" THEN
        IF custom_metric(attribute) THEN "number"
        ELSE IF attribute \notin DOMAIN metrics_ref THEN "string"
        ELSE data_type_of(metrics_ref[attribute])
    ELSE Exit1

\* discover.py:158-165
validate_dimensions(dimensions_ref, dimension) ==
    IF ~custom_dimension(dimension) /\ dimension \notin DOMAIN dimensions_ref
        THEN Exit1 ELSE "valid"

\* discover.py:167-180
validate_metrics(metrics_ref, metric) ==
    IF startswith(metric, {"ga:goal"})
        /\ endswith(metric, {"Starts", "Completions", "Value", "ConversionRate",
                             "Abandons", "AbandonRate"})
        THEN "valid"
    ELSE IF startswith(metric, {"ga:searchGoal"}) /\ endswith(metric, {"ConversionRate"})
        THEN "valid"
    ELSE IF ~startswith(metric, {"ga:metric", "ga:calcMetric"})
            /\ metric \notin DOMAIN metrics_ref
        THEN Exit1
    ELSE "valid"

\* client.py:149-186
lookup_data_type(dimensions_ref, metrics_ref, type, attribute) ==
    IF type = "dimension" THEN
        IF custom_dimension(attribute) THEN "string"
        ELSE IF attribute \notin DOMAIN dimensions_ref THEN Exit1
        ELSE data_type_of(dimensions_ref[attribute])
    ELSE IF type = "metric" THEN
        IF custom_metric(attribute) THEN "number"
        ELSE IF attribute \notin DOMAIN metrics_ref THEN Exit1
        ELSE data_type_of(metrics_ref[attribute])
    ELSE Exit1

\* client.py:307-312, 321-326: the Python type of the value put in the record
value_type(data_type) ==
    IF data_type = "integer" THEN "int"
    ELSE IF data_type = "number" THEN "float"
    ELSE "str"

\* a reference table that says nothing, or one thing, about the attribute
RefTables(attribute) == {<<>>} \cup {[a \in {attribute} |-> t] : t \in RefTypes}
LookupInputs ==
    UNION {[type : GaTypes, attribute : {a},
            dimensions_ref : RefTables(a), metrics_ref : RefTables(a)] : a \in Attributes}

LookupCall ==
    /\ l_pc = "call"
    /\ LET dt == lookup_data_type(l_in.dimensions_ref, l_in.metrics_ref,
                                  l_in.type, l_in.attribute)
           va == IF l_in.type = "dimension"
                    THEN validate_dimensions(l_in.dimensions_ref, l_in.attribute)
                 ELSE IF l_in.type = "metric"
                    THEN validate_metrics(l_in.metrics_ref, l_in.attribute)
                 ELSE "none"
       IN  l_out' = IF dt = Exit1
                    THEN [data_type |-> Exit1, value |-> "none", validated |-> va]
                    ELSE [data_type |-> dt, value |-> value_type(dt), validated |-> va]
    /\ l_pc' = "done"
    /\ UNCHANGED <<l_in, sync_vars, batch_vars, client_vars, hash_vars, args_vars>>

InitLookup ==
    /\ l_in \in LookupInputs
    /\ l_out = ""
    /\ l_pc = "call"
    /\ SyncOff /\ BatchIdle /\ ClientIdle /\ HashIdle /\ ArgsIdle

NextLookup == LookupCall

SpecLookup == InitLookup /\ [][NextLookup]_vars

\* the attribute is in the reference table of its kind
InRef(in) ==
    \/ in.type = "dimension" /\ in.attribute \in DOMAIN in.dimensions_ref
    \/ in.type = "metric" /\ in.attribute \in DOMAIN in.metrics_ref
\* its type there
RefType(in) ==
    IF in.type = "dimension" THEN in.dimensions_ref[in.attribute]
                             ELSE in.metrics_ref[in.attribute]
\* the name matches a custom-attribute pattern of its kind
Custom(in) ==
    \/ in.type = "dimension" /\ custom_dimension(in.attribute)
    \/ in.type = "metric" /\ custom_metric(in.attribute)
\* the value the reference type calls for
ByRefType(t) ==
    IF t = "INTEGER" THEN "int"
    ELSE IF t \in {"FLOAT", "PERCENT", "CURRENCY", "TIME"} THEN "float"
    ELSE "str"

\* C18, as stated: for every attribute, the value follows the reference type of
\* the attribute in the metadata table (INTEGER: integer; FLOAT, PERCENT,
\* CURRENCY, TIME: float; any other: string), and a custom dimension that is not
\* in the table yields a string.
C18_TypeFollowsReferenceTable ==
    l_pc = "done" =>
        /\ InRef(l_in) => l_out.value = ByRefType(RefType(l_in))
        /\ (l_in.type = "dimension" /\ startswith(l_in.attribute, {"ga:dimension"})
                /\ ~InRef(l_in)) => l_out.value = "str"

\* C18, amended: the value follows the reference type for every attribute whose
\* name matches no custom-attribute pattern of its kind; an attribute whose name
\* matches a custom dimension pattern yields a string and one whose name matches
\* a custom metric pattern yields a float, whether or not the table has it.
C18_TypeFollowsTableUnlessCustom ==
    l_pc = "done" =>
        /\ (InRef(l_in) /\ ~Custom(l_in)) => l_out.value = ByRefType(RefType(l_in))
        /\ (l_in.type = "dimension" /\ custom_dimension(l_in.attribute))
                => l_out.value = "str"
        /\ (l_in.type = "metric" /\ custom_metric(l_in.attribute))
                => l_out.value = "float"

\* a metric of reference type TIME has yielded a float
C18_Witness ==
    /\ l_pc = "done"
    /\ l_in.type = "metric"
    /\ l_in.attribute = "ga:sessions"
    /\ InRef(l_in) /\ RefType(l_in) = "TIME"
    /\ l_out.value = "float"

(***************************************************************************)
(* Client.process_stream: pagination, retries and error classification     *)
(***************************************************************************)

MaxPages == 3
MaxPageRows == 1

max_tries == 10

NON_FATAL_ERRORS == {"userRateLimitExceeded", "rateLimitExceeded", "quotaExceeded",
                     "internalServerError", "backendError"}

\* what an attempt of query_api can raise: socket.timeout, or an HttpError with
\* the status of its response and the first reason of its JSON body ("" when the
\* body is not such JSON)
Statuses == {400, 401, 402, 403, 500, 503}
Reasons == NON_FATAL_ERRORS \cup {"", "badRequest"}
SocketTimeout == [kind |-> "timeout", status |-> 0, reason |-> ""]
HttpErrors == [kind : {"http"}, status : Statuses, reason : Reasons]
Failures == {SocketTimeout} \cup HttpErrors

\* client.py:37-51
error_reason(e) == e.reason

\* a giveup predicate that never gives up
is_fatal_error_never(error) == FALSE

\* client.py:54-69
is_fatal_error(error) ==
    IF error.kind = "timeout" THEN FALSE
    ELSE IF error.status \in {500, 503} THEN FALSE
    ELSE IF error_reason(error) \in NON_FATAL_ERRORS THEN FALSE
    ELSE TRUE

\* a decorator that never retries
reraise_always(error, tries) == TRUE

\* client.py:238-241, backoff.on_exception: the exception of the attempt is
\* raised to the caller when giveup says so or the attempt was the max_tries-th,
\* otherwise the call is tried again
reraise(error, tries) == is_fatal_error(error) \/ tries = max_tries

\* client.py:210-222 with the status tested before the reason
classify_status_first(e) ==
    IF e.status = 400 THEN "GaInvalidArgumentError"
    ELSE IF e.status \in {401, 402} THEN "GaAuthenticationError"
    ELSE IF e.status \in {500, 503} THEN "GaBackendServerError"
    ELSE IF error_reason(e) \in {"userRateLimitExceeded", "rateLimitExceeded"}
        THEN "GaRateLimitError"
    ELSE IF error_reason(e) = "quotaExceeded" THEN "GaQuotaExceededError"
    ELSE "GaUnknownError"

\* client.py:205-222: the exception raised in place of an HttpError
classify(e) ==
    IF error_reason(e) \in {"userRateLimitExceeded", "rateLimitExceeded"}
        THEN "GaRateLimitError"
    ELSE IF error_reason(e) = "quotaExceeded" THEN "GaQuotaExceededError"
    ELSE IF e.status = 400 THEN "GaInvalidArgumentError"
    ELSE IF e.status \in {401, 402} THEN "GaAuthenticationError"
    ELSE IF e.status \in {500, 503} THEN "GaBackendServerError"
    ELSE "GaUnknownError"

\* client.py:190-222: what leaves process_stream when query_api raises: only
\* HttpError is caught, socket.timeout passes through as it is
raised_by_process_stream(e) ==
    IF e.kind = "http" THEN classify(e) ELSE "socket.timeout"

\* client.py:287: isoformat() of the window start, a datetime in UTC at midnight
\* (utils.strptime_to_utc, sync.py:82): the offset is part of the string
IsoStrings == <<"2024-01-01T00:00:00+00:00", "2024-01-02T00:00:00+00:00">>
isoformat(d) == IsoStrings[d - BaseDay + 1]

\* the view of the client (client.py:73) and the dimension values of a row
view_id == "1001"
RowDimensions == <<"x">>

\* a Python call of helpers.generate_sdc_record_hash(view_id, report_date,
\* dimensions) with the positional arguments args: TypeError unless there are three
call_generate_sdc_record_hash(args) ==
    IF Len(args) = 3
        THEN [raised |-> "", value |-> generate_sdc_record_hash(args[1], args[2], args[3])]
        ELSE [raised |-> "TypeError", value |-> ""]

\* client.py:299-340 for one row: the dimensions that are hashed, and the call of
\* line 337
hashed_dimensions(start_date, has_date) ==
    IF has_date THEN RowDimensions ELSE Append(RowDimensions, isoformat(start_date))
row_hash(start_date, has_date) ==
    call_generate_sdc_record_hash(<<view_id, hashed_dimensions(start_date, has_date)>>)

\* client.py:293: next(iter(response.get('reports', [])), None) for a response
\* that holds this many reports
first_report(reports) == IF reports = 0 THEN "None" ELSE "report"

\* client.py:269-344 for the response of page p, holding `reports` reports, the
\* first with n rows and token next: the AttributeError of report.get on None
\* (client.py:295; line 343 catches StopIteration only), else the exception of
\* the first row that raises, else the token and one record per row
process_response(start_date, has_date, reports, p, n, next) ==
    IF first_report(reports) = "None"
        THEN [raised |-> "AttributeError", token |-> 0, results |-> <<>>]
    ELSE IF n > 0 /\ row_hash(start_date, has_date).raised # ""
        THEN [raised |-> row_hash(start_date, has_date).raised,
              token |-> 0, results |-> <<>>]
        ELSE [raised |-> "", token |-> next,
              results |-> [k \in 1..n |->
                            [row |-> <<p, k>>,
                             report_start_date |-> isoformat(start_date),
                             sdc_record_hash |-> row_hash(start_date, has_date).value]]]

\* the attempts of the query_api call under way, this one included
tries_now == (IF c_last = NoFailure THEN 0 ELSE c_tries) + 1
\* the page the API sends for the token, and the token it sends with it
page_of(token) == token + 1
next_token(token) == IF page_of(token) < Len(c_in.pages) THEN page_of(token) ELSE 0
\* the number of reports in the response of page p: one, but for the last
\* response, which can hold none
reports_of(p) == IF p = Len(c_in.pages) THEN c_in.last_reports ELSE 1

\* client.py:198
extend(records, results) == records \o results

\* client.py:196-204: an attempt of query_api is answered; the response is
\* processed and the loop goes on, returns, or an exception leaves it
AttemptOk ==
    /\ c_pc = "query"
    /\ LET p == page_of(c_token)
           r == process_response(c_in.start_date, c_in.has_date, reports_of(p),
                                 p, c_in.pages[p], next_token(c_token))
       IN  /\ c_sent' = Append(c_sent, c_token)
           /\ c_tries' = tries_now
           /\ c_last' = NoFailure
           /\ IF r.raised # ""
                THEN /\ c_pc' = "raised"
                     /\ c_error' = r.raised
                     /\ UNCHANGED <<c_token, c_records>>
                ELSE /\ c_records' = extend(c_records, r.results)
                     /\ c_token' = r.token
                     /\ c_pc' = IF r.token = 0 THEN "returned" ELSE "query"
                     /\ UNCHANGED c_error
    /\ UNCHANGED <<c_in, sync_vars, batch_vars, lookup_vars, hash_vars, args_vars>>

\* client.py:238-242, 205-222 with process_stream returning the rows fetched so
\* far, in place of raising, when backoff lets the exception go
AttemptFail_partial(e) ==
    /\ c_pc = "query"
    /\ c_tries' = tries_now
    /\ c_last' = e
    /\ IF reraise(e, tries_now)
        THEN c_pc' = "returned" /\ UNCHANGED c_error
        ELSE UNCHANGED <<c_pc, c_error>>
    /\ UNCHANGED <<c_in, c_token, c_sent, c_records, sync_vars, batch_vars,
                   lookup_vars, hash_vars, args_vars>>

\* client.py:238-242, 205-222: an attempt of query_api raises; backoff tries again
\* or lets the exception go, and process_stream raises what it makes of it
AttemptFail(e) ==
    /\ c_pc = "query"
    /\ c_tries' = tries_now
    /\ c_last' = e
    /\ IF reraise(e, tries_now)
        THEN c_pc' = "raised" /\ c_error' = raised_by_process_stream(e)
        ELSE UNCHANGED <<c_pc, c_error>>
    /\ UNCHANGED <<c_in, c_token, c_sent, c_records, sync_vars, batch_vars,
                   lookup_vars, hash_vars, args_vars>>

PageLists == UNION {[1..n -> 0..MaxPageRows] : n \in 1..MaxPages}

\* the calls of process_stream and the responses the API has for them: the rows
\* of each page, and whether the last response holds a report. A response
\* without report has no rows and no nextPageToken (the token is a field of the
\* report, client.py:342), so it can only be the last one.
ClientInputs ==
    {i \in [start_date : {BaseDay, BaseDay + 1}, has_date : BOOLEAN,
            pages : PageLists, last_reports : {0, 1}] :
        i.last_reports = 0 => i.pages[Len(i.pages)] = 0}

\* client.py:188-193: process_stream is entered
InitClient ==
    /\ c_in \in ClientInputs
    /\ c_token = 0
    /\ c_tries = 0
    /\ c_last = NoFailure
    /\ c_sent = <<>>
    /\ c_records = <<>>
    /\ c_pc = "query"
    /\ c_error = ""
    /\ SyncOff /\ BatchIdle /\ LookupIdle /\ HashIdle /\ ArgsIdle

NextClient ==
    \/ AttemptOk
    \/ \E e \in Failures : AttemptFail(e)

SpecClient == InitClient /\ [][NextClient]_vars

\* the rows of the pages from page p on, in page order
RECURSIVE RowsFrom(_, _)
RowsFrom(pages, p) ==
    IF p > Len(pages) THEN <<>>
    ELSE [k \in 1..pages[p] |-> <<p, k>>] \o RowsFrom(pages, p + 1)
\* process_stream has ended and the last attempt of query_api was answered
EndedAfterAnswer == c_pc \in {"returned", "raised"} /\ c_last = NoFailure
\* the failure is one the spec calls transient
Transient(e) ==
    \/ e.kind = "timeout"
    \/ e.kind = "http" /\ (e.status \in {500, 503} \/ e.reason \in NON_FATAL_ERRORS)
\* the exceptions process_stream makes of the failures of query_api
QueryErrors == {"GaInvalidArgumentError", "GaAuthenticationError", "GaRateLimitError",
                "GaQuotaExceededError", "GaBackendServerError", "GaUnknownError",
                "socket.timeout"}

\* C12: when every page query is answered, process_stream has sent the first
\* query without token and each following one with the token of the page
\* before, up to the page without token, and returns the rows of all pages in
\* page order, none dropped and none twice.
C12_ReturnsAllPagesInOrder ==
    EndedAfterAnswer =>
        /\ c_pc = "returned"
        /\ c_sent = [i \in 1..Len(c_in.pages) |-> i - 1]
        /\ [i \in 1..Len(c_records) |-> c_records[i].row] = RowsFrom(c_in.pages, 1)

\* C13: a failed attempt with a non-transient error is the last attempt:
\* process_stream has raised, and when it was the first attempt of the query the
\* query was attempted exactly once.
C13_FatalErrorNotRetried ==
    (c_last # NoFailure /\ ~Transient(c_last)) =>
        /\ c_pc = "raised"
        /\ c_error \in QueryErrors
        /\ c_error = raised_by_process_stream(c_last)

\* the first attempt failed with status 400, reason badRequest, and
\* process_stream raised after this one attempt
C13_Witness ==
    /\ c_pc = "raised"
    /\ c_tries = 1
    /\ c_sent = <<>>
    /\ c_last = [kind |-> "http", status |-> 400, reason |-> "badRequest"]
    /\ c_error = "GaInvalidArgumentError"

\* C14: a page query is attempted at most 10 times; after a transient failure
\* that was not the 10th attempt the query is tried again and nothing is raised;
\* an answered attempt leaves no error of the query behind; an error is raised
\* for a transient failure only when it was the 10th attempt.
C14_TransientRetriedUpToTen ==
    /\ c_tries <= max_tries
    /\ (c_last # NoFailure /\ Transient(c_last) /\ c_tries < max_tries) =>
            c_pc = "query" /\ c_error = ""
    /\ (c_last = NoFailure /\ c_tries >= 1) => c_error \notin QueryErrors
    /\ (c_pc = "raised" /\ c_last # NoFailure /\ Transient(c_last)) =>
            c_tries = max_tries

\* the query of the only page failed nine times and was answered at the tenth
\* attempt; process_stream returned without error
C14_Witness ==
    /\ c_pc = "returned"
    /\ Len(c_in.pages) = 1
    /\ c_tries = max_tries
    /\ c_last = NoFailure
    /\ c_sent = <<0>>
    /\ c_error = ""

\* the class the spec gives an HTTP error
ErrorClass(e) ==
    CASE e.reason \in {"userRateLimitExceeded", "rateLimitExceeded"} -> "GaRateLimitError"
      [] e.reason = "quotaExceeded" -> "GaQuotaExceededError"
      [] e.reason \notin {"userRateLimitExceeded", "rateLimitExceeded", "quotaExceeded"}
            /\ e.status = 400 -> "GaInvalidArgumentError"
      [] e.reason \notin {"userRateLimitExceeded", "rateLimitExceeded", "quotaExceeded"}
            /\ e.status \in {401, 402} -> "GaAuthenticationError"
      [] e.reason \notin {"userRateLimitExceeded", "rateLimitExceeded", "quotaExceeded"}
            /\ e.status \in {500, 503} -> "GaBackendServerError"
      [] OTHER -> "GaUnknownError"

\* C15: an HTTP error that leaves process_stream leaves it as the one class of
\* the table: rate-limit reasons give GaRateLimitError, quotaExceeded gives
\* GaQuotaExceededError, otherwise status 400 gives GaInvalidArgumentError,
\* 401 and 402 GaAuthenticationError, 500 and 503 GaBackendServerError, anything
\* else GaUnknownError; the reason is looked at before the status.
C15_ErrorClassification ==
    (c_pc = "raised" /\ c_last.kind = "http") => c_error = ErrorClass(c_last)

\* an error with status 400 and reason rateLimitExceeded has left
\* process_stream as GaRateLimitError
C15_Witness ==
    /\ c_pc = "raised"
    /\ c_last.kind = "http"
    /\ c_last.status = 400
    /\ c_last.reason = "rateLimitExceeded"
    /\ c_error = "GaRateLimitError"

\* C16: no HTTP error leaves process_stream as GaBackendServerError: what the
\* orchestrator gets for an HTTP failure is one of the five other classes.
C16_BackendErrorNeverRaised ==
    (c_pc = "raised" /\ c_last.kind = "http") =>
        c_error \in {"GaInvalidArgumentError", "GaRateLimitError", "GaQuotaExceededError",
                     "GaAuthenticationError", "GaUnknownError"}

\* C17: when the tenth attempt of a query ends in a socket timeout, what leaves
\* process_stream is GaUnknownError or GaBackendServerError, not the timeout.
C17_TimeoutRaisedAsTaxonomyError ==
    (c_pc = "raised" /\ c_last = SocketTimeout /\ c_tries = max_tries) =>
        c_error \in {"GaUnknownError", "GaBackendServerError"}

\* C20: when the stream has no ga:date dimension and the answered pages hold
\* rows, process_stream returns records whose hash is the digest of a list that
\* holds the window's start date string next to the view and the dimension
\* values, so that equal rows of two windows differ in their hash.
C20_WindowStartInHash ==
    (EndedAfterAnswer /\ ~c_in.has_date /\ RowsFrom(c_in.pages, 1) # <<>>) =>
        /\ c_pc = "returned"
        /\ c_records # <<>>
        /\ \A i \in 1..Len(c_records) :
                c_records[i].sdc_record_hash \in
                    {generate_sdc_record_hash(view_id, isoformat(c_in.start_date),
                                              RowDimensions),
                     sha256_hexdigest(json_dumps(
                        <<view_id>> \o RowDimensions \o <<isoformat(c_in.start_date)>>))}

(***************************************************************************)
(* Orchestrator and batcher: state messages, spans, order                  *)
(***************************************************************************)

\* C22: in every state message currently_syncing is a stream id or null; the
\* state message written after a window of a stream carries that stream's id,
\* and the state message written when a stream has finished carries null.
C22_CurrentlySyncingIdOrNull ==
    /\ \A k \in StateIdx : output[k].value.currently_syncing \in Ids \cup {Null}
    /\ \A i \in 1..Len(queries) :
            queries[i].outcome = "ok" =>
                LET k == SetMin({m \in StateIdx : m > queries[i].at})
                IN  output[k].value.currently_syncing = queries[i].stream
    /\ (pc = "loop" /\ output # <<>>) =>
            /\ output[Len(output)].type = "STATE"
            /\ output[Len(output)].value.currently_syncing = Null

\* C23: for a range of 30 days or more and interval 6 or 29, every window but
\* the last spans interval + 1 days, every window starts interval + 1 days after
\* the start of the one before, and the last window spans between 1 and
\* interval + 1 days and ends at end.
C23_FullBatchesThenClippedLast ==
    (b_pc = "done" /\ b_in.end - b_in.start >= 30 /\ b_in.interval \in {6, 29}) =>
        LET n == Len(b_out)
            step == b_in.interval + 1
        IN  /\ n >= 1
            /\ \A k \in 1..(n - 1) : b_out[k][2] - b_out[k][1] + 1 = step
            /\ \A k \in 2..n : b_out[k][1] = b_out[k - 1][1] + step
            /\ b_out[n][2] - b_out[n][1] + 1 \in 1..step
            /\ b_out[n][2] = b_in.end

\* monthly batches of a range of 62 days: two windows of 30 days and a last
\* window of 2 days
C23_Witness ==
    /\ b_pc = "done"
    /\ b_in.interval = 29
    /\ b_in.end - b_in.start = 61
    /\ Len(b_out) = 3
    /\ b_out[1] = <<b_in.start, b_in.start + 29>>
    /\ b_out[3] = <<b_in.start + 60, b_in.end>>

\* the bookmark of the stream in the k-th message of the output
BookmarkAt(k, s) == output[k].value.bookmarks[s]

\* C24: the windows of a stream are queried in ascending date order, each
\* starting after the end of the one queried before, and each bookmark write
\* of the pass is to a later date than the bookmark write before it.
C24_AscendingWindowsAndBookmarks ==
    \A s \in Ids :
        /\ \A i, j \in QueriesOf(s) :
                i < j => /\ queries[i].window[1] < queries[j].window[1]
                         /\ queries[i].window[2] < queries[j].window[1]
        /\ \A k, m \in BookmarkWrites(s) :
                k < m => BookmarkAt(k, s) < BookmarkAt(m, s)

\* stream A was queried for three windows in a row, all answered, with three
\* bookmark writes
C24_Witness ==
    /\ Cardinality(OkQueriesOf("A")) >= 3
    /\ Cardinality(BookmarkWrites("A")) >= 3
    /\ Finished("A")

\* C26: looking up a dimension or metric that is not in the reference table of
\* its kind and matches no custom-attribute name pattern ends the process with
\* sys.exit(1) and yields no value; the validation of report definitions
\* rejects the same attribute the same way.
C26_UnknownAttributeIsFatal ==
    (l_pc = "done" /\ l_in.type \in {"dimension", "metric"}
        /\ ~InRef(l_in) /\ ~Custom(l_in)) =>
            /\ l_out.data_type = Exit1
            /\ l_out.value = "none"
            /\ l_out.validated = Exit1

\* the dimension ga:country was looked up with a reference table that lacks it
C26_Witness ==
    /\ l_pc = "done"
    /\ l_in.type = "dimension"
    /\ l_in.attribute = "ga:country"
    /\ l_in.dimensions_ref = <<>>
    /\ l_out.data_type = Exit1
    /\ l_out.value = "none"

(***************************************************************************)
(* Orchestrator: bookmarks of the other streams, failed windows            *)
(***************************************************************************)

\* C27: a step that processes a window of a stream, answered or failed, leaves
\* the bookmark of every other stream as it was, and the bookmark of a stream
\* that is not selected is, in the state and in every state message, the one of
\* the state the run started from.
C27_OtherBookmarksUnchanged ==
    [][ /\ (pc = "window" /\ queries' # queries) =>
                \A s \in Ids \ {CurStream} : SameBookmark(state, state', s)
        /\ \A s \in Ids \ get_selected_streams(catalog) :
                /\ SameBookmark(state', state0, s)
                /\ \A k \in 1..Len(output') :
                        output'[k].type = "STATE" =>
                            SameBookmark(output'[k].value, state0, s)
      ]_vars

\* both streams had a bookmark; A, selected, was synced to a new bookmark and B,
\* not selected, still has its own
C27_Witness ==
    /\ pc = "done"
    /\ catalog[1].selected /\ ~catalog[2].selected
    /\ "A" \in DOMAIN state0.bookmarks /\ "B" \in DOMAIN state0.bookmarks
    /\ OkQueriesOf("A") # {}
    /\ ~BookmarkIs(state, "A", state0.bookmarks["A"])
    /\ BookmarkIs(state, "B", state0.bookmarks["B"])

\* C28: in no state message is the bookmark of a stream earlier than the
\* bookmark the stream had in the state the run started from.
C28_BookmarkNeverEarlier ==
    \A s \in Ids :
        s \in DOMAIN state0.bookmarks =>
            \A k \in StateIdx : BookmarkAt(k, s) >= state0.bookmarks[s]

\* C30: every window queried has window_start <= window_end; when the bookmark
\* minus lookback_days is later than config.end_date the stream is not queried
\* and its bookmark is not rewritten.
C30_NoInvertedWindow ==
    /\ \A i \in 1..Len(queries) : queries[i].window[1] <= queries[i].window[2]
    /\ \A s \in get_selected_streams(catalog) :
            RangeStart(s) > config.end_date =>
                /\ QueriesOf(s) = {}
                /\ \A k \in StateIdx : SameBookmark(output[k].value, state0, s)

(***************************************************************************)
(* Orchestrator: the state machine of a stream                             *)
(***************************************************************************)

Terminal == {"COMPLETED", "SKIPPED_WITH_ERRORS", "ABORTED"}

\* the state of a stream, read off the run: ABORTED once a query of the stream
\* has ended the process (sync.py:118-125, or an exception sync() does not
\* catch), SKIPPED_WITH_ERRORS once a query of the stream has raised a
\* recoverable error and the stream was logged as skipped (sync.py:106-117),
\* COMPLETED when its windows are exhausted without error (sync.py:130-131),
\* RUNNING from sync.py:91 on, PENDING before
StreamState(s) ==
    IF \E i \in QueriesOf(s) : queries[i].outcome \in Fatal \cup Uncaught THEN "ABORTED"
    ELSE IF \E i \in QueriesOf(s) : queries[i].outcome \in Recoverable
        THEN "SKIPPED_WITH_ERRORS"
    ELSE IF Finished(s) THEN "COMPLETED"
    ELSE IF Started(s) THEN "RUNNING"
    ELSE "PENDING"

\* the steps of PENDING -> RUNNING -> (COMPLETED | SKIPPED_WITH_ERRORS | ABORTED)
LegalStep(a, b) ==
    \/ a = b
    \/ a = "PENDING" /\ b = "RUNNING"
    \/ a = "RUNNING" /\ b \in Terminal

\* C25: every step of the run takes each selected stream along PENDING, RUNNING,
\* then one of COMPLETED, SKIPPED_WITH_ERRORS, ABORTED; a stream in one of these
\* three states stays in it and is not queried any more.
C25_StreamStateMachine ==
    [][ \A s \in get_selected_streams(catalog) :
            /\ LegalStep(StreamState(s), StreamState(s)')
            /\ StreamState(s) \in Terminal => QueriesOf(s)' = QueriesOf(s)
      ]_vars

(***************************************************************************)
(* process_args: the config handed to sync()                               *)
(***************************************************************************)

\* the config file: start_date is required (__init__.py:45); end_date is absent,
\* empty or a date; lookback_days is absent, an int or something else;
\* date_batching is absent or a string. now is the clock read by utils.now()
RawDates == [day : {BaseDay, BaseDay + 1}, hour : {0, 12}]
RawEndDates ==
    {[kind |-> "absent", day |-> 0, hour |-> 0], [kind |-> "empty", day |-> 0, hour |-> 0]}
        \cup [kind : {"date"}, day : {BaseDay, BaseDay + 2}, hour : {0}]
RawLookbacks ==
    {[kind |-> "absent", value |-> 0], [kind |-> "other", value |-> 0]}
        \cup [kind : {"int"}, value : Lookbacks]
RawBatchings == {"absent", "DAY", "WEEK", "MONTH", "YEAR"}
Clocks == [day : {BaseDay + 1, BaseDay + 2}, hour : {0, 12}]
ArgsInputs ==
    [start_date : RawDates, end_date : RawEndDates, lookback_days : RawLookbacks,
     date_batching : RawBatchings, now : Clocks]

\* __init__.py:31-38: get_end_date, which no code of the tap calls: the value
\* of the config's end_date key when the key is there, the empty string
\* included, else the day before now at midnight
get_end_date(raw) ==
    IF raw.end_date.kind # "absent"
        THEN raw.end_date
        ELSE [kind |-> "date", day |-> raw.now.day - 1, hour |-> 0]

\* __init__.py:82-86: utils.strftime(utils.now()), parsed again, at midnight
default_end_date(now) == now.day

\* __init__.py:71-72, 82-86: the end date, as a day (the time of day is set to 0)
effective_end_date(raw) ==
    IF raw.end_date.kind = "date" THEN raw.end_date.day ELSE default_end_date(raw.now)

\* __init__.py:74-75, 92-98
interval_days(raw) ==
    IF raw.date_batching = "WEEK" THEN 6
    ELSE IF raw.date_batching = "MONTH" THEN 29
    ELSE 0

\* __init__.py:88-90: end_date < start_date, end_date being at midnight
end_before_start(end_day, start_date) ==
    end_day < start_date.day \/ (end_day = start_date.day /\ start_date.hour > 0)

\* __init__.py:40-131: the config of sync(); lookback_days is kept only when it
\* is an int (lines 63-66)
processed_config(raw) ==
    LET c == [start_date |-> raw.start_date, end_date |-> effective_end_date(raw),
              date_batching |-> interval_days(raw)]
    IN  IF raw.lookback_days.kind = "int"
            THEN [start_date |-> c.start_date, end_date |-> c.end_date,
                  date_batching |-> c.date_batching,
                  lookback_days |-> raw.lookback_days.value]
            ELSE c

ProcessArgs ==
    /\ a_pc = "call"
    /\ a_out' = IF end_before_start(effective_end_date(a_in), a_in.start_date)
                    THEN [exit |-> 1, config |-> <<>>]
                    ELSE [exit |-> 0, config |-> processed_config(a_in)]
    /\ a_pc' = "done"
    /\ UNCHANGED <<a_in, sync_vars, batch_vars, client_vars, lookup_vars, hash_vars>>

InitArgs ==
    /\ a_in \in ArgsInputs
    /\ a_out = <<>>
    /\ a_pc = "call"
    /\ SyncOff /\ BatchIdle /\ ClientIdle /\ LookupIdle /\ HashIdle

NextArgs == ProcessArgs

SpecArgs == InitArgs /\ [][NextArgs]_vars

\* the windows sync() asks for with this config, for a stream without bookmark
FirstRunWindows(cfg) ==
    batch_report_dates(
        stream_start_date([bookmarks |-> <<>>, currently_syncing |-> Null], cfg, "A"),
        cfg.end_date, cfg.date_batching)

\* C21: when the config file has no end_date, the end date handed to sync() is
\* the day before the current day, and no window of the run reaches the current
\* day.
C21_EndDateIsYesterday ==
    (a_pc = "done" /\ a_in.end_date.kind # "date" /\ a_out.exit = 0) =>
        /\ a_out.config.end_date = a_in.now.day - 1
        /\ \A k \in 1..Len(FirstRunWindows(a_out.config)) :
                FirstRunWindows(a_out.config)[k][2] < a_in.now.day

\* C31: no window queried for a stream starts before config.start_date, and
\* for a stream without bookmark the earliest window queried starts at
\* config.start_date, whether lookback_days is configured or left to its
\* default.
C31_NoWindowBeforeStartDate ==
    /\ \A i \in 1..Len(queries) :
            queries[i].window[1] >= strftime(config.start_date)
    /\ \A s \in Ids :
            (s \notin DOMAIN state0.bookmarks /\ QueriesOf(s) # {}) =>
                SetMin({queries[i].window[1] : i \in QueriesOf(s)})
                    = strftime(config.start_date)

\* the API has answered the last query of the call with a response that holds
\* no report
NoReportAnswered ==
    /\ c_in.last_reports = 0
    /\ Len(c_sent) = Len(c_in.pages)

\* C32: process_response applied to a response without report returns no
\* continuation token and an empty list of records, and process_stream then
\* returns the records of the pages before it (none when it is the only page)
\* instead of raising.
C32_NoReportGivesEmptyPage ==
    NoReportAnswered =>
        /\ LET r == process_response(c_in.start_date, c_in.has_date, 0,
                                     Len(c_in.pages), 0, 0)
           IN  r.raised = "" /\ r.token = 0 /\ r.results = <<>>
        /\ c_pc = "returned"
        /\ c_error = ""
        /\ [i \in 1..Len(c_records) |-> c_records[i].row] = RowsFrom(c_in.pages, 1)

(***************************************************************************)
(* A window on both sides of the call of sync.py:99: the runs of sync(),    *)
(* with whatever process_stream returns or raises, and the runs of         *)
(* process_stream, page by page                                            *)
(***************************************************************************)

\* sync() is entered with a daily config on a first run
InitWindowSync ==
    /\ InitSync
    /\ config.date_batching = 0
    /\ "lookback_days" \in DOMAIN config
    /\ state0.bookmarks = <<>>
    /\ BatchIdle /\ ClientIdle /\ LookupIdle /\ HashIdle /\ ArgsIdle

\* process_stream is entered for the window of one day, of a stream with the
\* ga:date dimension
InitWindowClient ==
    /\ InitClient
    /\ c_in.start_date = BaseDay
    /\ c_in.has_date

InitWindow == InitWindowSync \/ InitWindowClient

NextWindow == Next \/ NextClient

SpecWindow == InitWindow /\ [][NextWindow]_vars

\* C29: record emission is atomic per window. In process_stream, a page query
\* whose failure ends the call makes the call raise, also after earlier pages
\* of the window were answered: the rows fetched so far are not returned; and
\* the call returns only once the last page was fetched. In sync(), a step in
\* which process_stream raises writes no message and leaves the bookmark as it
\* was, and every record in the output is of a window whose call had returned
\* before the record was written.
C29_FailedWindowEmitsNothing ==
    [][ /\ (c_pc = "query" /\ c_pc' # "query" /\ c_last' # NoFailure) =>
                c_pc' = "raised" /\ c_error' # ""
        /\ (c_pc = "query" /\ c_pc' = "returned") =>
                /\ c_last' = NoFailure
                /\ c_token' = 0
                /\ Len(c_sent') = Len(c_in.pages)
        /\ (pc = "window" /\ queries' # queries
                /\ queries'[Len(queries')].outcome # "ok") =>
                    output' = output /\ state' = state
        /\ \A k \in 1..Len(output') :
                output'[k].type = "RECORD" =>
                    \E i \in 1..Len(queries') :
                        /\ queries'[i].outcome = "ok"
                        /\ queries'[i].stream = output'[k].stream
                        /\ queries'[i].window[1] = output'[k].report_start_date
                        /\ queries'[i].at < k
      ]_vars

\* the first page of a window was answered, the query of the second page
\* failed and process_stream raised an error that sync() logs and goes on from:
\* the call has ended without a returned list
C29_Witness ==
    /\ c_pc = "raised"
    /\ Len(c_in.pages) >= 2
    /\ c_sent = <<0>>
    /\ c_last # NoFailure
    /\ c_error \in Recoverable

====
